---- MODULE Spec2Model ----
(***************************************************************************)
(* Model of mom.codec.base85: the ASCII85 / RFC1924 stream codec           *)
(* (b85encode, b85decode and their rfc1924_ wrappers) and the fixed-width  *)
(* 128-bit codec (ipv6_b85encode, ipv6_b85decode).                         *)
(*                                                                         *)
(* Characters are their code points, strings and byte strings are          *)
(* sequences of code points / octets.  Python integers are unbounded, so   *)
(* they are kept as little-endian sequences of base-256 limbs without      *)
(* high zero limbs (<<>> is 0); every arithmetic step of the code is       *)
(* carried out exactly on that representation.                             *)
(***************************************************************************)
EXTENDS Integers, Sequences, FiniteSets, TLC

(***************************************************************************)
(* Bounds of the explored inputs.                                          *)
(***************************************************************************)
MaxLen == 8
MaxZeroBlocks == 3
MaxText == 5

(***************************************************************************)
(* Exact integer arithmetic on limb sequences.                             *)
(***************************************************************************)
RECURSIVE Norm(_)
Norm(n) ==
    IF n = <<>> THEN <<>>
    ELSE IF n[Len(n)] = 0 THEN Norm(SubSeq(n, 1, Len(n) - 1))
    ELSE n

Reverse(s) == [i \in 1..Len(s) |-> s[Len(s) + 1 - i]]

\* n * m + c for a small multiplier m and a small addend c.
RECURSIVE MulAdd(_, _, _)
MulAdd(n, m, c) ==
    IF n = <<>> THEN (IF c = 0 THEN <<>> ELSE <<c % 256>> \o MulAdd(<<>>, m, c \div 256))
    ELSE LET t == Head(n) * m + c
         IN  <<t % 256>> \o MulAdd(Tail(n), m, t \div 256)

\* The remainder left after long division by m has consumed limbs Len(n)..i.
RECURSIVE RemFrom(_, _, _)
RemFrom(n, m, i) ==
    IF i > Len(n) THEN 0 ELSE (RemFrom(n, m, i + 1) * 256 + n[i]) % m

\* n % m and n // m for a small divisor m.
Mod(n, m) == RemFrom(n, m, 1)

FloorDiv(n, m) ==
    Norm([i \in 1..Len(n) |-> (RemFrom(n, m, i + 1) * 256 + n[i]) \div m])

\* The value of an integer known to fit one limb.
ToInt(n) == IF n = <<>> THEN 0 ELSE n[1]

\* n > 2^(8*k) - 1
Exceeds(n, k) == Len(n) > k

(***************************************************************************)
(* Module constants.                                                       *)
(***************************************************************************)
ADOBE_PREFIX == <<60, 126>>
ADOBE_SUFFIX == <<126, 62>>

\* What \s matches in a byte string, which is also string.whitespace.
WHITESPACE_CHARS == {9, 10, 11, 12, 13, 32}

ascii85_chr(num) == num + 33

ascii85_ord(char) == char - 33

\* Both tables are indexed from ordinal 0 in the code, from 1 here.
ASCII85_CHARS == [i \in 1..85 |-> ascii85_chr(i - 1)]

ASCII85_ORDS == [x \in {ASCII85_CHARS[i] : i \in 1..85} |-> ascii85_ord(x)]

RFC1924_CHARS ==
    << 48, 49, 50, 51, 52, 53, 54, 55, 56, 57,
       65, 66, 67, 68, 69, 70, 71, 72, 73, 74, 75, 76, 77,
       78, 79, 80, 81, 82, 83, 84, 85, 86, 87, 88, 89, 90,
       97, 98, 99, 100, 101, 102, 103, 104, 105, 106, 107, 108, 109,
       110, 111, 112, 113, 114, 115, 116, 117, 118, 119, 120, 121, 122,
       33, 35, 36, 37, 38, 40, 41, 42, 43, 45, 59, 60, 61, 62, 63, 64,
       94, 95, 96, 123, 124, 125, 126 >>

RFC1924_ORDS ==
    [x \in {RFC1924_CHARS[i] : i \in 1..85} |->
        (CHOOSE i \in 1..85 : RFC1924_CHARS[i] = x) - 1]

(***************************************************************************)
(* Outcomes of a call: a returned value or a raised exception.             *)
(***************************************************************************)
Return(v) == [ok |-> TRUE, err |-> "", val |-> v]

Raise(e) == [ok |-> FALSE, err |-> e, val |-> <<>>]

NotCalled == [ok |-> FALSE, err |-> "not called", val |-> <<>>]

(***************************************************************************)
(* String helpers.                                                         *)
(***************************************************************************)
startswith(s, p) == Len(s) >= Len(p) /\ SubSeq(s, 1, Len(p)) = p

endswith(s, p) == Len(s) >= Len(p) /\ SubSeq(s, Len(s) - Len(p) + 1, Len(s)) = p

ReplaceNothing(s, old, new) == s

\* str.replace: leftmost, non-overlapping occurrences of a non-empty old.
RECURSIVE replace(_, _, _)
replace(s, old, new) ==
    IF Len(s) < Len(old) THEN s
    ELSE IF startswith(s, old)
         THEN new \o replace(SubSeq(s, Len(old) + 1, Len(s)), old, new)
         ELSE <<Head(s)>> \o replace(Tail(s), old, new)

RECURSIVE Concat(_)
Concat(ss) == IF ss = <<>> THEN <<>> ELSE Head(ss) \o Concat(Tail(ss))

Repeat(c, k) == [i \in 1..k |-> c]

(***************************************************************************)
(* b85encode                                                               *)
(***************************************************************************)
\* unpack('>L', four bytes): the big-endian unsigned value.
unpack_L(bytes4) == Norm(Reverse(bytes4))

\* x // 85**k
RECURSIVE FloorDivPow85(_, _)
FloorDivPow85(x, k) == IF k = 0 THEN x ELSE FloorDivPow85(FloorDiv(x, 85), k - 1)

\* The five characters appended for one 32-bit value.
EncodeBlock(x, base85_chars) ==
    << base85_chars[ToInt(FloorDivPow85(x, 4)) + 1],
       base85_chars[Mod(FloorDivPow85(x, 3), 85) + 1],
       base85_chars[Mod(FloorDivPow85(x, 2), 85) + 1],
       base85_chars[Mod(FloorDivPow85(x, 1), 85) + 1],
       base85_chars[Mod(x, 85) + 1] >>

ZeroGroup == <<33, 33, 33, 33, 33>>

ZeroMarker == <<122>>

\* The text between prefix and suffix.
EncodedPayload(bytes, padding, base85_chars) ==
    LET remainder    == Len(bytes) % 4
        padding_size == IF remainder # 0 THEN 4 - remainder ELSE 0
        padded       == bytes \o Repeat(0, padding_size)
        num_uint32   == Len(padded) \div 4
        ascii_chars  == Concat([k \in 1..num_uint32 |->
                            EncodeBlock(unpack_L(SubSeq(padded, 4 * k - 3, 4 * k)),
                                        base85_chars)])
        kept         == IF padding_size # 0 /\ ~padding
                        THEN SubSeq(ascii_chars, 1, Len(ascii_chars) - padding_size)
                        ELSE ascii_chars
    IN  replace(kept, ZeroGroup, ZeroMarker)

\* raw is [is_bytes, bytes]; prefix and suffix are <<>> for None.
b85encode(raw, prefix, suffix, padding, base85_chars) ==
    IF ~raw.is_bytes THEN Raise("TypeError")
    ELSE Return(prefix \o EncodedPayload(raw.bytes, padding, base85_chars) \o suffix)

(***************************************************************************)
(* b85decode                                                               *)
(***************************************************************************)
PadCharZeroOrdinal == ascii85_chr(0)

PadChar == 117

StripWhitespace(encoded, ignore_ws) ==
    IF ignore_ws THEN SelectSeq(encoded, LAMBDA c : c \notin WHITESPACE_CHARS)
    ELSE encoded

StripPrefix(encoded, prefix) ==
    IF prefix # <<>> /\ startswith(encoded, prefix)
    THEN SubSeq(encoded, Len(prefix) + 1, Len(encoded))
    ELSE encoded

StripSuffixKeepingLast(encoded, suffix) ==
    IF suffix # <<>> /\ endswith(encoded, suffix)
    THEN SubSeq(encoded, 1, Len(encoded) - Len(suffix) + 1)
    ELSE encoded

StripSuffix(encoded, suffix) ==
    IF suffix # <<>> /\ endswith(encoded, suffix)
    THEN SubSeq(encoded, 1, Len(encoded) - Len(suffix))
    ELSE encoded

\* The text as the chunk loop sees it, before 'u' padding.
Prepared(encoded, prefix, suffix, ignore_ws) ==
    replace(StripSuffix(StripPrefix(StripWhitespace(encoded, ignore_ws), prefix), suffix),
            ZeroMarker, ZeroGroup)

DecodePaddingSize(text) == IF Len(text) % 5 # 0 THEN 5 - (Len(text) % 5) ELSE 0

Padded(text) == text \o Repeat(PadChar, DecodePaddingSize(text))

Chunk(padded, k) == SubSeq(padded, 5 * k - 4, 5 * k)

\* The lookups of a chunk raise KeyError iff a character has no ordinal.
ChunkDecodable(chunk, base85_ords) == \A i \in 1..5 : chunk[i] \in DOMAIN base85_ords

\* ((((a*85 + b)*85 + c)*85 + d)*85 + e as an unbounded integer.
ChunkValue(chunk, base85_ords) ==
    MulAdd(MulAdd(MulAdd(MulAdd(MulAdd(<<>>, 85, base85_ords[chunk[1]]),
                                85, base85_ords[chunk[2]]),
                         85, base85_ords[chunk[3]]),
                  85, base85_ords[chunk[4]]),
           85, base85_ords[chunk[5]])

NumChunks(padded) == Len(padded) \div 5

\* The values of the chunks that can be looked up, in order.
RECURSIVE DecodableValues(_, _, _)
DecodableValues(padded, k, base85_ords) ==
    IF k > NumChunks(padded) THEN <<>>
    ELSE (IF ChunkDecodable(Chunk(padded, k), base85_ords)
          THEN <<ChunkValue(Chunk(padded, k), base85_ords)>>
          ELSE <<>>) \o DecodableValues(padded, k + 1, base85_ords)

\* A loop that drops an undecodable chunk instead of raising.
DecodeChunksSkipping(padded, base85_ords) ==
    Return(DecodableValues(padded, 1, base85_ords))

\* A loop with the range check of lines 249-250 enabled.
DecodeChunksRangeChecked(padded, base85_ords) ==
    IF \E k \in 1..NumChunks(padded) :
            \/ ~ChunkDecodable(Chunk(padded, k), base85_ords)
            \/ Exceeds(ChunkValue(Chunk(padded, k), base85_ords), 4)
    THEN Raise("OverflowError")
    ELSE Return(DecodableValues(padded, 1, base85_ords))

\* The chunk loop: uint32s, or the OverflowError of the first KeyError.
DecodeChunks(padded, base85_ords) ==
    IF \E k \in 1..NumChunks(padded) : ~ChunkDecodable(Chunk(padded, k), base85_ords)
    THEN Raise("OverflowError")
    ELSE Return([k \in 1..NumChunks(padded) |-> ChunkValue(Chunk(padded, k), base85_ords)])

\* pack('>L', v) of a value in range, and of the value masked to 32 bits.
pack_L(v) ==
    LET low == SubSeq(v, 1, IF Len(v) < 4 THEN Len(v) ELSE 4)
    IN  Reverse(low \o Repeat(0, 4 - Len(low)))

\* masking: whether struct.pack masks an out-of-range integer (interpreters
\* built with PY_STRUCT_OVERFLOW_MASKING) or raises struct.error.
b85decode(encoded, prefix, suffix, ignore_ws, base85_ords, masking) ==
    IF \E i \in 1..Len(encoded) : encoded[i] > 255 THEN Raise("UnicodeEncodeError")
    ELSE
    LET text         == Prepared(encoded, prefix, suffix, ignore_ws)
        padding_size == DecodePaddingSize(text)
        uint32s      == DecodeChunks(Padded(text), base85_ords)
    IN  IF ~uint32s.ok THEN uint32s
        ELSE
        LET raw_bytes == Concat([k \in 1..Len(uint32s.val) |-> pack_L(uint32s.val[k])])
        IN  IF (\E k \in 1..Len(uint32s.val) : Exceeds(uint32s.val[k], 4)) /\ ~masking
            THEN Raise("struct.error")
            ELSE Return(SubSeq(raw_bytes, 1, Len(raw_bytes) - padding_size))

(***************************************************************************)
(* rfc1924_b85encode, rfc1924_b85decode                                    *)
(***************************************************************************)
rfc1924_b85encode(raw) == b85encode(raw, <<>>, <<>>, FALSE, RFC1924_CHARS)

rfc1924_b85decode(encoded, masking) ==
    b85decode(encoded, <<>>, <<>>, TRUE, RFC1924_ORDS, masking)

(***************************************************************************)
(* ipv6_b85encode, ipv6_b85decode                                          *)
(***************************************************************************)
Ipv6Digits == 20

\* The digits filled left to right instead of right to left.
ipv6_b85encode_least_first(uint128, base85_chars) ==
    IF uint128.neg THEN Raise("ValueError")
    ELSE IF Exceeds(uint128.mag, 16) THEN Raise("OverflowError")
    ELSE Return([i \in 1..Ipv6Digits |->
                    base85_chars[Mod(FloorDivPow85(uint128.mag, i - 1), 85) + 1]])

\* uint128 is [neg, mag]: the sign and the magnitude of a Python integer.
ipv6_b85encode(uint128, base85_chars) ==
    IF uint128.neg THEN Raise("ValueError")
    ELSE IF Exceeds(uint128.mag, 16) THEN Raise("OverflowError")
    ELSE Return([i \in 1..Ipv6Digits |->
                    base85_chars[Mod(FloorDivPow85(uint128.mag, Ipv6Digits - i), 85) + 1]])

\* uint128 after the loop has consumed the first k characters.
RECURSIVE Accumulate(_, _, _)
Accumulate(encoded, k, base85_ords) ==
    IF k = 0 THEN <<>>
    ELSE MulAdd(Accumulate(encoded, k - 1, base85_ords), 85, base85_ords[encoded[k]])

ipv6_b85decode(encoded, base85_ords, whitespace) ==
    IF \E i \in 1..Len(encoded) : encoded[i] > 255 THEN Raise("UnicodeEncodeError")
    ELSE IF Len(encoded) # Ipv6Digits THEN Raise("ValueError")
    ELSE LET offending == {i \in 1..Len(encoded) :
                              encoded[i] \in whitespace \/ encoded[i] \notin DOMAIN base85_ords}
         IN  IF offending = {} THEN Return(Accumulate(encoded, Len(encoded), base85_ords))
             ELSE LET first == CHOOSE i \in offending : \A j \in offending : i <= j
                  IN  IF encoded[first] \in whitespace THEN Raise("ValueError")
                      ELSE Raise("KeyError")

(***************************************************************************)
(* Inputs.                                                                 *)
(***************************************************************************)
ByteVals == {0, 28, 199}

Buffers ==
    UNION {[1..n -> ByteVals] : n \in 0..MaxLen}
        \cup {Repeat(0, 4 * k) : k \in 0..MaxZeroBlocks}

RawInputs ==
    {[is_bytes |-> TRUE, bytes |-> s] : s \in Buffers}
        \cup {[is_bytes |-> FALSE, bytes |-> <<>>]}

NoBytes == [is_bytes |-> FALSE, bytes |-> <<>>]

\* '!', '"', 'u', 'z', '|', space and a character outside latin-1.
TextChars == {33, 34, 117, 122, 124, 32, 8364}

Texts == UNION {[1..n -> TextChars] : n \in 0..MaxText}

\* Texts that carry none, one or both Adobe delimiters.
DelimitedTexts ==
    { <<60, 126>>, <<126, 62>>, <<60, 126, 126, 62>>, <<60, 126, 62>>,
      <<60, 126, 122>>, <<122, 126, 62>>, <<60, 126, 122, 126, 62>>,
      <<122, 60, 126>>, <<126, 62, 122>> }

Magnitudes ==
    {Norm([i \in 1..16 |-> IF i = p THEN v ELSE IF i < p THEN lo ELSE hi]) :
        p \in 1..16, v \in ByteVals \cup {1, 255}, lo \in {0, 255}, hi \in {0, 255}}
        \cup {Repeat(0, 16) \o <<1>>}

Uint128Inputs ==
    {[neg |-> FALSE, mag |-> m] : m \in Magnitudes} \cup {[neg |-> TRUE, mag |-> <<1>>]}

NoInt == [neg |-> FALSE, mag |-> <<>>]

\* '0', '~', 'z', space, tab, '"' and a character outside latin-1.
Ipv6TextChars == {48, 126, 122, 32, 9, 34, 8364}

Ipv6Texts ==
    {[i \in 1..n |-> IF i = p THEN c1 ELSE IF i = q THEN c2 ELSE fill] :
        n \in {Ipv6Digits - 1, Ipv6Digits, Ipv6Digits + 1},
        p \in {1, 2, Ipv6Digits}, q \in {2, Ipv6Digits},
        c1 \in Ipv6TextChars, c2 \in Ipv6TextChars, fill \in {48, 126}}

(***************************************************************************)
(* State: one call of the API on one input, and, for the encoders, the     *)
(* matching decoder applied to what the encoder returned.                  *)
(***************************************************************************)
VARIABLES pc, call, masking, raw_bytes, prefix, suffix, padding, uint128, text,
          enc, dec

vars == <<pc, call, masking, raw_bytes, prefix, suffix, padding, uint128, text,
          enc, dec>>

Init ==
    /\ pc = "start"
    /\ enc = NotCalled
    /\ dec = NotCalled
    /\ masking \in BOOLEAN
    /\ call \in {"b85encode", "rfc1924_b85encode", "b85decode",
                 "rfc1924_b85decode", "ipv6_b85encode", "ipv6_b85decode"}
    /\ raw_bytes \in IF call \in {"b85encode", "rfc1924_b85encode"}
                     THEN RawInputs ELSE {NoBytes}
    /\ \E delimiters \in IF call \in {"b85encode", "b85decode"}
                          THEN {<<<<>>, <<>>>>, <<ADOBE_PREFIX, ADOBE_SUFFIX>>}
                          ELSE {<<<<>>, <<>>>>} :
            prefix = delimiters[1] /\ suffix = delimiters[2]
    /\ padding \in IF call = "b85encode" /\ prefix = <<>> THEN BOOLEAN ELSE {FALSE}
    /\ uint128 \in IF call = "ipv6_b85encode" THEN Uint128Inputs ELSE {NoInt}
    /\ text \in CASE call = "b85decode" /\ prefix = <<>> -> Texts
                  [] call = "b85decode" /\ prefix # <<>> -> DelimitedTexts
                  [] call = "rfc1924_b85decode" -> Texts
                  [] call = "ipv6_b85decode" -> Ipv6Texts
                  [] OTHER -> {<<>>}

CallB85Encode ==
    /\ pc = "start" /\ call = "b85encode"
    /\ enc' = b85encode(raw_bytes, prefix, suffix, padding, ASCII85_CHARS)
    /\ pc' = "encoded"
    /\ UNCHANGED <<call, masking, raw_bytes, prefix, suffix, padding, uint128, text, dec>>

CallB85Decode ==
    /\ \/ pc = "start" /\ call = "b85decode"
       \/ pc = "encoded" /\ call = "b85encode" /\ enc.ok
    /\ dec' = b85decode(IF call = "b85decode" THEN text ELSE enc.val,
                        prefix, suffix, TRUE, ASCII85_ORDS, masking)
    /\ pc' = "decoded"
    /\ UNCHANGED <<call, masking, raw_bytes, prefix, suffix, padding, uint128, text, enc>>

CallRfc1924Encode ==
    /\ pc = "start" /\ call = "rfc1924_b85encode"
    /\ enc' = rfc1924_b85encode(raw_bytes)
    /\ pc' = "encoded"
    /\ UNCHANGED <<call, masking, raw_bytes, prefix, suffix, padding, uint128, text, dec>>

CallRfc1924Decode ==
    /\ \/ pc = "start" /\ call = "rfc1924_b85decode"
       \/ pc = "encoded" /\ call = "rfc1924_b85encode" /\ enc.ok
    /\ dec' = rfc1924_b85decode(IF call = "rfc1924_b85decode" THEN text ELSE enc.val,
                                masking)
    /\ pc' = "decoded"
    /\ UNCHANGED <<call, masking, raw_bytes, prefix, suffix, padding, uint128, text, enc>>

CallIpv6Encode ==
    /\ pc = "start" /\ call = "ipv6_b85encode"
    /\ enc' = ipv6_b85encode(uint128, RFC1924_CHARS)
    /\ pc' = "encoded"
    /\ UNCHANGED <<call, masking, raw_bytes, prefix, suffix, padding, uint128, text, dec>>

CallIpv6Decode ==
    /\ \/ pc = "start" /\ call = "ipv6_b85decode"
       \/ pc = "encoded" /\ call = "ipv6_b85encode" /\ enc.ok
    /\ dec' = ipv6_b85decode(IF call = "ipv6_b85decode" THEN text ELSE enc.val,
                             RFC1924_ORDS, WHITESPACE_CHARS)
    /\ pc' = "decoded"
    /\ UNCHANGED <<call, masking, raw_bytes, prefix, suffix, padding, uint128, text, enc>>

Next ==
    \/ CallB85Encode
    \/ CallB85Decode
    \/ CallRfc1924Encode
    \/ CallRfc1924Decode
    \/ CallIpv6Encode
    \/ CallIpv6Decode

Spec == Init /\ [][Next]_vars

(***************************************************************************)
(* Properties.                                                             *)
(***************************************************************************)
Latin1(s) == \A i \in 1..Len(s) : s[i] <= 255

Chars(s) == {s[i] : i \in 1..Len(s)}

\* The text a decoder was handed in this state.
DecodeInput == IF call \in {"b85decode", "rfc1924_b85decode", "ipv6_b85decode"}
               THEN text ELSE enc.val

\* What the chunk loop of a stream decoder iterates over in this state.
LoopText(base85_prefix, base85_suffix) ==
    Padded(Prepared(DecodeInput, base85_prefix, base85_suffix, TRUE))

\* C1: under the standard alphabet, without prefix or suffix and with the
\* default options, decoding what b85encode returned for a byte buffer
\* returns exactly that buffer, whatever its length.
C1_RoundTripAscii85 ==
    (pc = "decoded" /\ call = "b85encode" /\ prefix = <<>> /\ ~padding)
        => dec = Return(raw_bytes.bytes)

\* A 5-byte buffer whose encoding is truncated and carries a marker.
C1_Witness ==
    /\ pc = "decoded" /\ call = "b85encode" /\ prefix = <<>> /\ ~padding
    /\ Len(raw_bytes.bytes) = 5
    /\ 122 \in Chars(enc.val)
    /\ Len(enc.val) = 3
    /\ dec.ok

\* C2: under the RFC1924 alphabet, decoding what rfc1924_b85encode returned
\* for a byte buffer returns exactly that buffer.
C2_RoundTripRfc1924 ==
    (pc = "decoded" /\ call = "rfc1924_b85encode")
        => dec = Return(raw_bytes.bytes)

\* The chunk loop of b85decode is handed only alphabet members and at least
\* one group whose value exceeds 2^32 - 1.
C3_OverflowingGroup ==
    /\ pc = "decoded" /\ call = "b85decode" /\ Latin1(text)
    /\ LET padded == LoopText(prefix, suffix)
       IN  /\ \A k \in 1..NumChunks(padded) : ChunkDecodable(Chunk(padded, k), ASCII85_ORDS)
           /\ \E k \in 1..NumChunks(padded) :
                 Exceeds(ChunkValue(Chunk(padded, k), ASCII85_ORDS), 4)

\* The bytes of every group's value reduced modulo 2^32, less the padding.
C3_WrappedBytes ==
    LET prepared == Prepared(text, prefix, suffix, TRUE)
        padded   == Padded(prepared)
        bytes    == Concat([k \in 1..NumChunks(padded) |->
                        pack_L(ChunkValue(Chunk(padded, k), ASCII85_ORDS))])
    IN  SubSeq(bytes, 1, Len(bytes) - DecodePaddingSize(prepared))

C4_UndecodableChunkRaises ==
    \A d \in {"b85decode", "rfc1924_b85decode"} :
        (/\ pc = "decoded" /\ call = d /\ Latin1(text)
         /\ \E c \in Chars(LoopText(prefix, suffix)) :
                c \notin DOMAIN (IF d = "b85decode" THEN ASCII85_ORDS ELSE RFC1924_ORDS))
            => dec = Raise("OverflowError")

\* 'z|': a decodable all-zero group followed by a group holding '|'.
C4_Witness ==
    /\ pc = "decoded" /\ call = "b85decode"
    /\ text = <<122, 124>>
    /\ NumChunks(LoopText(prefix, suffix)) = 2
    /\ ChunkDecodable(Chunk(LoopText(prefix, suffix), 1), ASCII85_ORDS)
    /\ dec = Raise("OverflowError")

\* C5: for every x in [0, 2^128 - 1], ipv6_b85encode returns 20 RFC1924
\* characters and ipv6_b85decode maps them back to x.
C5_Ipv6RoundTrip ==
    (/\ pc # "start" /\ call = "ipv6_b85encode"
     /\ ~uint128.neg /\ ~Exceeds(uint128.mag, 16))
        => /\ enc.ok
           /\ Len(enc.val) = 20
           /\ Chars(enc.val) \subseteq DOMAIN RFC1924_ORDS
           /\ pc = "decoded" => dec = Return(uint128.mag)

\* 2^128 - 1 encoded and decoded.
C5_Witness ==
    /\ pc = "decoded" /\ call = "ipv6_b85encode"
    /\ uint128.mag = Repeat(255, 16)
    /\ enc.ok /\ enc.val[1] # enc.val[20]
    /\ dec.ok

\* ValueError and the exceptions derived from it.
ValueErrors == {"ValueError", "UnicodeEncodeError"}

\* C6: a 20-character text holding whitespace or a character outside the
\* RFC1924 alphabet makes ipv6_b85decode fail with the error kind raised
\* for whitespace, whichever of the two it holds.
C6_Ipv6RejectsUniformly ==
    (/\ pc = "decoded" /\ call = "ipv6_b85decode" /\ Len(text) = 20
     /\ \E c \in Chars(text) : c \in WHITESPACE_CHARS \/ c \notin DOMAIN RFC1924_ORDS)
        => ~dec.ok /\ dec.err \in ValueErrors

\* C7: with the Adobe delimiters given to both calls, decoding what
\* b85encode returned for a byte buffer returns exactly that buffer.
C7_RoundTripAdobe ==
    (/\ pc = "decoded" /\ call = "b85encode"
     /\ prefix = ADOBE_PREFIX /\ suffix = ADOBE_SUFFIX)
        => dec = Return(raw_bytes.bytes)

\* The empty buffer: the encoded text is the two delimiters back to back.
C7_Witness ==
    /\ pc = "decoded" /\ call = "b85encode"
    /\ prefix = ADOBE_PREFIX /\ suffix = ADOBE_SUFFIX
    /\ raw_bytes.bytes = <<>>
    /\ enc.val = <<60, 126, 126, 62>>
    /\ dec.ok

ZeroBlocks(bytes) == Len(bytes) % 4 = 0 /\ \A i \in 1..Len(bytes) : bytes[i] = 0

\* C8: under the standard alphabet a buffer of k all-zero 4-byte blocks
\* encodes to exactly k marker characters, and the single marker decodes to
\* four zero bytes.
C8_ZeroBlockMarker ==
    /\ (/\ pc # "start" /\ call = "b85encode" /\ prefix = <<>>
        /\ raw_bytes.is_bytes /\ ZeroBlocks(raw_bytes.bytes))
            => enc = Return(Repeat(122, Len(raw_bytes.bytes) \div 4))
    /\ (/\ pc = "decoded" /\ call \in {"b85encode", "b85decode"} /\ prefix = <<>>
        /\ DecodeInput = <<122>>)
            => dec = Return(<<0, 0, 0, 0>>)

\* Four zero bytes encoded to 'z' and decoded from it.
C8_Witness ==
    /\ pc = "decoded" /\ call = "b85encode" /\ prefix = <<>>
    /\ raw_bytes.bytes = <<0, 0, 0, 0>>
    /\ enc.val = <<122>>
    /\ dec.val = <<0, 0, 0, 0>>

\* How many characters of the uncompressed text precede the i-th character
\* of the compressed text.
RECURSIVE UncompressedOffset(_, _)
UncompressedOffset(s, i) ==
    IF i = 1 THEN 0
    ELSE UncompressedOffset(s, i - 1) + (IF s[i - 1] = 122 THEN 5 ELSE 1)

\* C9: every marker in the output of b85encode under the standard alphabet
\* stands for one complete all-zero 4-byte block of the input: it replaces
\* the five characters of a block the input holds in full and whose bytes
\* are all zero.
C9_MarkerIsZeroBlock ==
    (/\ pc # "start" /\ call = "b85encode" /\ prefix = <<>> /\ ~padding /\ enc.ok)
        => \A i \in 1..Len(enc.val) :
              enc.val[i] = 122 =>
                 LET o == UncompressedOffset(enc.val, i)
                     b == o \div 5
                 IN  /\ o % 5 = 0
                     /\ 4 * (b + 1) <= Len(raw_bytes.bytes)
                     /\ \A j \in 1..4 : raw_bytes.bytes[4 * b + j] = 0

\* C10: a value ipv6_b85decode returns is a 128-bit unsigned integer.
C10_Ipv6DecodeInRange ==
    (pc = "decoded" /\ call \in {"ipv6_b85encode", "ipv6_b85decode"} /\ dec.ok)
        => ~Exceeds(dec.val, 16)

====
